---- MODULE Spec2Model ----
(***************************************************************************)
(* Model of the simulation core of programmable-ships: the live physics    *)
(* tick (kinimatics_system), the keyboard control of the ship              *)
(* (user_control_system), the trajectory projection with its pool of       *)
(* ProjectionDot markers (course_projection_system) and the frame loop     *)
(* that runs them and applies their deferred commands.                     *)
(*                                                                         *)
(* Numbers.  f32 values are modelled as integers with sign-symmetric       *)
(* rounding (Div), unit vectors and throttle amounts as fixed point with   *)
(* UNIT standing for 1.0, and a Vec3 that is not finite (a component is    *)
(* NaN or an infinity) as a vector whose nan flag is set.  Masses and      *)
(* distances are in units in which the constant of gravitation is 1.       *)
(***************************************************************************)
EXTENDS Integers, Sequences, FiniteSets, TLC

\* ------------------------------------------------------------------ bounds
MaxBodies == 3
MaxFrames == 2

\* ------------------------------------------------------- program constants
num_seconds == 5
step_precision == 10
GRAVITATIONAL_CONSTANT == 1
UNIT == 1000

\* ------------------------------------------------------------ f32 and Vec3
Div(a, b) == IF a >= 0 THEN a \div b ELSE -((-a) \div b)

V(x, y, z) == [nan |-> FALSE, x |-> x, y |-> y, z |-> z]

NaNVec == [nan |-> TRUE, x |-> 0, y |-> 0, z |-> 0]

ZERO == V(0, 0, 0)

VAdd(a, b) ==
    IF a.nan \/ b.nan THEN NaNVec ELSE V(a.x + b.x, a.y + b.y, a.z + b.z)

VSub(a, b) ==
    IF a.nan \/ b.nan THEN NaNVec ELSE V(a.x - b.x, a.y - b.y, a.z - b.z)

\* v * dt, the time step being the fraction dt.num / dt.den
VMulDt(v, dt) ==
    IF v.nan THEN NaNVec
    ELSE V(Div(v.x * dt.num, dt.den), Div(v.y * dt.num, dt.den),
           Div(v.z * dt.num, dt.den))

\* v / m: a division by zero leaves no finite vector
VDivScalar(v, m) ==
    IF v.nan \/ m = 0 THEN NaNVec
    ELSE IF m > 0 THEN V(Div(v.x, m), Div(v.y, m), Div(v.z, m))
    ELSE V(-Div(v.x, -m), -Div(v.y, -m), -Div(v.z, -m))

\* u * s for a fixed-point unit vector u
MulUnit(u, s) ==
    IF u.nan THEN NaNVec
    ELSE V(Div(u.x * s, UNIT), Div(u.y * s, UNIT), Div(u.z * s, UNIT))

distance_squared(a, b) ==
    (a.x - b.x) * (a.x - b.x) + (a.y - b.y) * (a.y - b.y)
        + (a.z - b.z) * (a.z - b.z)

\* Newton's iteration for the integer square root of n > 0, from a guess x
\* that is not below it
RECURSIVE ISqrtFrom(_, _)
ISqrtFrom(n, x) ==
    LET y == (x + n \div x) \div 2
    IN  IF y >= x THEN x ELSE ISqrtFrom(n, y)

\* the integer square root, the largest r with r * r <= n
ISqrt(n) ==
    IF n = 0 THEN 0
    ELSE ISqrtFrom(n, IF n < 100 THEN 10
                      ELSE IF n < 10000 THEN 100
                      ELSE IF n < 1000000 THEN 1000
                      ELSE IF n < 100000000 THEN 10000
                      ELSE 46341)

length(v) == ISqrt(v.x * v.x + v.y * v.y + v.z * v.z)

\* v.normalize(), in fixed point; the zero vector has no direction
normalize(v) ==
    IF v.nan THEN NaNVec
    ELSE LET len == length(v)
         IN  IF len = 0 THEN NaNVec
             ELSE V(Div(v.x * UNIT, len), Div(v.y * UNIT, len),
                    Div(v.z * UNIT, len))

\* sin of h * pi / step_precision, in fixed point
SinTable == <<0, 309, 588, 809, 951, 1000>>

SinHalf(k) == IF k <= 5 THEN SinTable[k + 1] ELSE SinTable[11 - k]

Sin(h) ==
    LET k == h % (2 * step_precision)
    IN  IF k <= step_precision THEN SinHalf(k) ELSE -SinHalf(k - step_precision)

\* rotation.mul_vec3(Vec3::Y) for a rotation of h * pi / step_precision about z
Forward(h) == V(-Sin(h), Sin(h + step_precision \div 2), 0)

\* ------------------------------------------------------------- components
\* Throttle::Fixed(bool) and Throttle::Variable(f32), the amount in fixed point
Fixed(on) == [kind |-> "Fixed", on |-> on, amount |-> 0]

Variable(amount) == [kind |-> "Variable", on |-> FALSE, amount |-> amount]

\* Engine { fuel, max_thrust, throttle }, the throttle defaulting to Variable(0.0)
Engine(max_thrust) ==
    [fuel |-> 0, max_thrust |-> max_thrust, throttle |-> Variable(0)]

\* Transform::default()
DefaultTransform == [translation |-> ZERO, rotation |-> 0]

\* KinimaticsBundle::build().insert_mass(m).insert_translation(t)
\*     .insert_velocity(v), with the optional Engine and the Controlled marker
Body(id, m, t, v, engine, controlled) ==
    [id |-> id, mass |-> m, velocity |-> v, acceleration |-> ZERO,
     tran |-> [translation |-> t, rotation |-> 0],
     engine |-> engine, controlled |-> controlled]

\* The bodies the startup systems spawn, in the order the queries iterate
\* them: the sun, Mercury, the controlled ship, then further planets.
RosterBody(i) ==
    CASE i = 1 -> Body(1, 2000, ZERO, ZERO, <<>>, FALSE)
      [] i = 2 -> Body(2, 300, V(0, 10, 0), V(-40, 0, 0), <<>>, FALSE)
      [] i = 3 -> Body(3, 100, V(6, 8, 0), ZERO, <<Engine(1000)>>, TRUE)
      [] OTHER -> Body(i, 800, V(0, -10 * (i - 3), 0), V(40, 0, 0), <<>>, FALSE)

\* the roster bodies whose index is in S, in roster order
Population(S) ==
    [k \in 1..Cardinality(S) |->
        RosterBody(CHOOSE i \in S : Cardinality({j \in S : j <= i}) = k)]

\* ------------------------------------------------------- gravity accumulator
\* all_forces after the initialisation loop: one empty list per body
EmptyForces(num_bods) == [k \in 1..num_bods |-> <<>>]

\* all_forces[idx].push(v), idx counted from 0 as in the source
Push(forces, idx, v) == [forces EXCEPT ![idx + 1] = Append(@, v)]

\* a pair whose two bodies are both given the force d1
PairForceSameDirection(q, o) ==
    LET qt == q.tran.translation
        ot == o.tran.translation
    IN  IF qt.nan \/ ot.nan THEN [d1 |-> NaNVec, d2 |-> NaNVec]
        ELSE LET d == distance_squared(qt, ot)
             IN  IF d = 0 THEN [d1 |-> NaNVec, d2 |-> NaNVec]
                 ELSE LET force_mag ==
                              Div(GRAVITATIONAL_CONSTANT * (q.mass * o.mass), d)
                      IN  [d1 |-> MulUnit(normalize(VSub(ot, qt)), force_mag),
                           d2 |-> MulUnit(normalize(VSub(ot, qt)), force_mag)]

\* a pair whose force falls off with the distance, not with its square
PairForceInverseLinear(q, o) ==
    LET qt == q.tran.translation
        ot == o.tran.translation
    IN  IF qt.nan \/ ot.nan THEN [d1 |-> NaNVec, d2 |-> NaNVec]
        ELSE LET d == length(VSub(ot, qt))
             IN  IF d = 0 THEN [d1 |-> NaNVec, d2 |-> NaNVec]
                 ELSE LET force_mag ==
                              Div(GRAVITATIONAL_CONSTANT * (q.mass * o.mass), d)
                      IN  [d1 |-> MulUnit(normalize(VSub(ot, qt)), force_mag),
                           d2 |-> MulUnit(normalize(VSub(qt, ot)), force_mag)]

\* the two forces of one pair: d1 on q (toward o) and d2 on o (toward q)
PairForce(q, o) ==
    LET qt == q.tran.translation
        ot == o.tran.translation
    IN  IF qt.nan \/ ot.nan THEN [d1 |-> NaNVec, d2 |-> NaNVec]
        ELSE LET d == distance_squared(qt, ot)
             IN  IF d = 0 THEN [d1 |-> NaNVec, d2 |-> NaNVec]
                 ELSE LET force_mag ==
                              Div(GRAVITATIONAL_CONSTANT * (q.mass * o.mass), d)
                      IN  [d1 |-> MulUnit(normalize(VSub(ot, qt)), force_mag),
                           d2 |-> MulUnit(normalize(VSub(qt, ot)), force_mag)]

\* the reaction credited by its position in the tail alone
ReactionIndexInTail(i, j) == j + 1

\* a reaction index one past the body the force belongs to
ReactionIndexPastEnd(i, j) == i + j + 2

\* the index the reaction d2 of the pair (i, j-th element of the tail) goes to
ReactionIndex(i, j) == i + j + 1

\* an inner loop over entities.split_at(i).1, a tail that begins with body i
RECURSIVE PairLoopFromSelf(_, _, _, _)
PairLoopFromSelf(ents, forces, i, j) ==
    LET tail == SubSeq(ents, i + 1, Len(ents))
    IN  IF j >= Len(tail) THEN forces
        ELSE LET f == PairForce(ents[i + 1], tail[j + 1])
             IN  PairLoopFromSelf(ents,
                                  Push(Push(forces, i, f.d1), i + j, f.d2),
                                  i, j + 1)

\* the inner for_each over entities.split_at(i + 1).1, from its j-th element
RECURSIVE PairLoop(_, _, _, _)
PairLoop(ents, forces, i, j) ==
    LET tail == SubSeq(ents, i + 2, Len(ents))
    IN  IF j >= Len(tail) THEN forces
        ELSE LET f == PairForce(ents[i + 1], tail[j + 1])
             IN  PairLoop(ents,
                          Push(Push(forces, i, f.d1), ReactionIndex(i, j), f.d2),
                          i, j + 1)

\* the outer loop over entities.iter().enumerate(), from index i
RECURSIVE GravityLoop(_, _, _)
GravityLoop(ents, forces, i) ==
    IF i >= Len(ents) THEN forces
    ELSE GravityLoop(ents, PairLoop(ents, forces, i, 0), i + 1)

\* ------------------------------------------------------------- propulsion
\* a thrust whose variable amount is clamped to the range from 0.0 to 1.0
ThrustMagnitudeClamped(t) ==
    CASE t.throttle.kind = "Fixed" /\ t.throttle.on -> t.max_thrust
      [] t.throttle.kind = "Fixed" /\ ~t.throttle.on -> 0
      [] OTHER ->
             Div((IF t.throttle.amount < 0 THEN 0
                  ELSE IF t.throttle.amount > UNIT THEN UNIT
                  ELSE t.throttle.amount) * t.max_thrust, UNIT)

ThrustMagnitude(t) ==
    CASE t.throttle.kind = "Fixed" /\ t.throttle.on -> t.max_thrust
      [] t.throttle.kind = "Fixed" /\ ~t.throttle.on -> 0
      [] OTHER -> Div(t.throttle.amount * t.max_thrust, UNIT)

\* tran.rotation.mul_vec3(Vec3::Y) * match t.throttle { ... }
Thrust(tran, t) == MulUnit(Forward(tran.rotation), ThrustMagnitude(t))

\* ---------------------------------------------------------------- integrator
\* all_forces[i].iter().copied().reduce(|acc, x| acc + x), list not empty
RECURSIVE Reduce(_)
Reduce(list) ==
    IF Len(list) = 1 THEN list[1]
    ELSE VAdd(Reduce(SubSeq(list, 1, Len(list) - 1)), list[Len(list)])

\* a thrust that is pushed only when the engine is running
WithThrustWhenRunning(forces, i, e) ==
    IF e.engine # <<>> /\ ThrustMagnitude(e.engine[1]) # 0
    THEN Push(forces, i, Thrust(e.tran, e.engine[1]))
    ELSE forces

\* all_forces[i] once the engine's thrust, if any, has been pushed
WithThrust(forces, i, e) ==
    IF e.engine # <<>> THEN Push(forces, i, Thrust(e.tran, e.engine[1]))
    ELSE forces

\* explicit Euler: the translation advanced by the velocity before the tick
AdvanceExplicit(e, list, dt) ==
    LET acceleration == VDivScalar(Reduce(list), e.mass)
    IN  [e EXCEPT !.acceleration = acceleration,
                  !.velocity = VAdd(e.velocity, VMulDt(acceleration, dt)),
                  !.tran.translation =
                      VAdd(e.tran.translation, VMulDt(e.velocity, dt))]

\* an advance that adds the new acceleration to the stored one
AdvanceAccumulating(e, list, dt) ==
    LET acceleration == VAdd(e.acceleration, VDivScalar(Reduce(list), e.mass))
        velocity == VAdd(e.velocity, VMulDt(acceleration, dt))
    IN  [e EXCEPT !.acceleration = acceleration,
                  !.velocity = velocity,
                  !.tran.translation =
                      VAdd(e.tran.translation, VMulDt(velocity, dt))]

\* one body advanced by the sum of its forces: acceleration, then velocity,
\* then translation from the new velocity
Advance(e, list, dt) ==
    LET acceleration == VDivScalar(Reduce(list), e.mass)
        velocity == VAdd(e.velocity, VMulDt(acceleration, dt))
    IN  [e EXCEPT !.acceleration = acceleration,
                  !.velocity = velocity,
                  !.tran.translation =
                      VAdd(e.tran.translation, VMulDt(velocity, dt))]

\* a second loop in which a running engine burns fuel
RECURSIVE IntegrateLoopBurningFuel(_, _, _, _)
IntegrateLoopBurningFuel(ents, forces, i, dt) ==
    IF i >= Len(ents)
    THEN [entities |-> ents, all_forces |-> forces, panic |-> FALSE]
    ELSE LET f == WithThrust(forces, i, ents[i + 1])
         IN  IF f[i + 1] = <<>>
             THEN [entities |-> ents, all_forces |-> f, panic |-> TRUE]
             ELSE LET e == Advance(ents[i + 1], f[i + 1], dt)
                  IN  IntegrateLoopBurningFuel(
                          [ents EXCEPT ![i + 1] =
                              IF e.engine = <<>> \/ ThrustMagnitude(e.engine[1]) = 0
                              THEN e
                              ELSE [e EXCEPT !.engine[1].fuel = @ - 1]],
                          f, i + 1, dt)

\* the second loop of kinimatics_system from body i; expect("0 forces")
\* panics on an empty list, leaving the bodies before i already written
RECURSIVE IntegrateLoop(_, _, _, _)
IntegrateLoop(ents, forces, i, dt) ==
    IF i >= Len(ents)
    THEN [entities |-> ents, all_forces |-> forces, panic |-> FALSE]
    ELSE LET f == WithThrust(forces, i, ents[i + 1])
         IN  IF f[i + 1] = <<>>
             THEN [entities |-> ents, all_forces |-> f, panic |-> TRUE]
             ELSE IntegrateLoop(
                      [ents EXCEPT ![i + 1] = Advance(@, f[i + 1], dt)],
                      f, i + 1, dt)

\* a tick that computes the forces on body i only when it integrates body i,
\* from the positions the bodies before i have already been moved to
RECURSIVE InterleavedLoop(_, _, _, _)
InterleavedLoop(ents, forces, i, dt) ==
    IF i >= Len(ents)
    THEN [entities |-> ents, all_forces |-> forces, panic |-> FALSE]
    ELSE LET g == GravityLoop(ents, EmptyForces(Len(ents)), 0)
             f == WithThrust([forces EXCEPT ![i + 1] = g[i + 1]], i,
                             ents[i + 1])
         IN  IF f[i + 1] = <<>>
             THEN [entities |-> ents, all_forces |-> f, panic |-> TRUE]
             ELSE InterleavedLoop(
                      [ents EXCEPT ![i + 1] = Advance(@, f[i + 1], dt)],
                      f, i + 1, dt)

KinimaticsRunInterleaved(ents, dt) ==
    InterleavedLoop(ents, EmptyForces(Len(ents)), 0, dt)

\* a tick that integrates the bodies a second time
KinimaticsRunTwice(ents, dt) ==
    LET once == IntegrateLoop(ents, GravityLoop(ents, EmptyForces(Len(ents)), 0),
                              0, dt)
    IN  IF once.panic THEN once
        ELSE IntegrateLoop(once.entities,
                           GravityLoop(once.entities,
                                       EmptyForces(Len(ents)), 0),
                           0, dt)

\* the body of kinimatics_system on the queried bodies
KinimaticsRun(ents, dt) ==
    IntegrateLoop(ents, GravityLoop(ents, EmptyForces(Len(ents)), 0), 0, dt)

\* ---------------------------------------------------- trajectory projector
\* the copy course_projection_system makes of the queried bodies
CloneBodies(k_bods) == k_bods

\* a projection step that burns fuel and shuts an engine without fuel off
RECURSIVE ProjIntegrateLoopBurningFuel(_, _, _, _, _)
ProjIntegrateLoopBurningFuel(ents, forces, snapshot, i, dt) ==
    IF i >= Len(ents)
    THEN [entities |-> ents, all_forces |-> forces, snapshot |-> snapshot,
          panic |-> FALSE]
    ELSE LET f == WithThrust(forces, i, ents[i + 1])
         IN  IF f[i + 1] = <<>>
             THEN [entities |-> ents, all_forces |-> f, snapshot |-> snapshot,
                   panic |-> TRUE]
             ELSE LET a == Advance(ents[i + 1], f[i + 1], dt)
                      e == IF a.engine = <<>> THEN a
                           ELSE [a EXCEPT !.engine[1].fuel = @ - 1,
                                          !.engine[1].throttle = Fixed(FALSE)]
                  IN  ProjIntegrateLoopBurningFuel(
                          [ents EXCEPT ![i + 1] = e],
                          [f EXCEPT ![i + 1] = <<>>],
                          Append(snapshot, e.tran), i + 1, dt)

\* a projection step that truncates each list to its first force instead
\* of clearing it
RECURSIVE ProjIntegrateLoopTruncating(_, _, _, _, _)
ProjIntegrateLoopTruncating(ents, forces, snapshot, i, dt) ==
    IF i >= Len(ents)
    THEN [entities |-> ents, all_forces |-> forces, snapshot |-> snapshot,
          panic |-> FALSE]
    ELSE LET f == WithThrust(forces, i, ents[i + 1])
         IN  IF f[i + 1] = <<>>
             THEN [entities |-> ents, all_forces |-> f, snapshot |-> snapshot,
                   panic |-> TRUE]
             ELSE LET e == Advance(ents[i + 1], f[i + 1], dt)
                  IN  ProjIntegrateLoopTruncating(
                          [ents EXCEPT ![i + 1] = e],
                          [f EXCEPT ![i + 1] = <<f[i + 1][1]>>],
                          Append(snapshot, e.tran), i + 1, dt)

\* the second loop of one projection step from body i: as IntegrateLoop, and
\* the new transform is pushed on the step's snapshot and the list cleared
RECURSIVE ProjIntegrateLoop(_, _, _, _, _)
ProjIntegrateLoop(ents, forces, snapshot, i, dt) ==
    IF i >= Len(ents)
    THEN [entities |-> ents, all_forces |-> forces, snapshot |-> snapshot,
          panic |-> FALSE]
    ELSE LET f == WithThrust(forces, i, ents[i + 1])
         IN  IF f[i + 1] = <<>>
             THEN [entities |-> ents, all_forces |-> f, snapshot |-> snapshot,
                   panic |-> TRUE]
             ELSE LET e == Advance(ents[i + 1], f[i + 1], dt)
                  IN  ProjIntegrateLoop([ents EXCEPT ![i + 1] = e],
                                        [f EXCEPT ![i + 1] = <<>>],
                                        Append(snapshot, e.tran), i + 1, dt)

\* an iteration of the step loop whose dt is 1 / num_seconds
ProjStepCoarse(proj) ==
    IF proj.panic THEN proj
    ELSE LET r == ProjIntegrateLoop(proj.entities,
                                    GravityLoop(proj.entities, proj.all_forces, 0),
                                    <<>>, 0, [num |-> 1, den |-> num_seconds])
         IN  [entities |-> r.entities, all_forces |-> r.all_forces,
              steps |-> Append(proj.steps, r.snapshot), panic |-> r.panic]

\* one iteration of the step loop on the projection so far: the gravity pass
\* over the cloned bodies, then the integration that records the step
ProjStep(proj) ==
    IF proj.panic THEN proj
    ELSE LET r == ProjIntegrateLoop(proj.entities,
                                    GravityLoop(proj.entities, proj.all_forces, 0),
                                    <<>>, 0, [num |-> 1, den |-> step_precision])
         IN  [entities |-> r.entities, all_forces |-> r.all_forces,
              steps |-> Append(proj.steps, r.snapshot), panic |-> r.panic]

\* n further iterations of the step loop
RECURSIVE ProjSteps(_, _)
ProjSteps(proj, n) ==
    IF n = 0 THEN proj ELSE ProjStep(ProjSteps(proj, n - 1))

\* the projection after the first n iterations of the step loop, evaluated
\* step_precision iterations (one second) at a time
RECURSIVE ProjStepLoop(_, _)
ProjStepLoop(ents, n) ==
    IF n = 0
    THEN [entities |-> ents, all_forces |-> EmptyForces(Len(ents)),
          steps |-> <<>>, panic |-> FALSE]
    ELSE LET last == IF n % step_precision = 0 THEN step_precision
                     ELSE n % step_precision
             before == ProjStepLoop(ents, n - last)
         IN  IF before.panic THEN before ELSE ProjSteps(before, last)

\* a step loop over the inclusive range 0..=num_seconds * step_precision
ProjectionRunInclusive(ents) ==
    ProjStepLoop(ents, num_seconds * step_precision + 1)

\* the projection of the copied bodies, the loop over
\* 0..num_seconds * step_precision: steps is one snapshot per step
ProjectionRun(ents) == ProjStepLoop(ents, num_seconds * step_precision)

\* a flattening that emits body by body: all the steps of the first body,
\* then all the steps of the second
FlattenBodyMajor(steps) ==
    IF steps = <<>> THEN <<>>
    ELSE [n \in 1..(Len(steps) * Len(steps[1])) |->
             steps[((n - 1) % Len(steps)) + 1][((n - 1) \div Len(steps)) + 1]]

\* steps.into_iter().flatten().collect()
RECURSIVE Flatten(_)
Flatten(steps) ==
    IF steps = <<>> THEN <<>> ELSE Head(steps) \o Flatten(Tail(steps))

\* ---------------------------------------------------- marker pool reconciler
Despawn(id) == [op |-> "despawn", id |-> id]

Spawn == [op |-> "spawn", id |-> 0]

\* a reconciler that spawns one dot too many
ReconcileOneMore(dots, total_dots) ==
    LET available_dots == Len(dots)
    IN  IF available_dots > total_dots
        THEN [k \in 1..(available_dots - total_dots) |-> Despawn(dots[k].id)]
        ELSE IF available_dots < total_dots
        THEN [k \in 1..(total_dots - available_dots + 1) |-> Spawn]
        ELSE <<>>

\* a reconciler that never advances the iterator over the dots
ReconcileSameDot(dots, total_dots) ==
    LET available_dots == Len(dots)
    IN  IF available_dots > total_dots
        THEN [k \in 1..(available_dots - total_dots) |-> Despawn(dots[1].id)]
        ELSE IF available_dots < total_dots
        THEN [k \in 1..(total_dots - available_dots) |-> Spawn]
        ELSE <<>>

\* a reconciler that spawns the whole projection whatever the pool holds
ReconcileIgnoringPool(dots, total_dots) == [k \in 1..total_dots |-> Spawn]

\* a reconciler that rebuilds a pool of the right size
ReconcileRebuild(dots, total_dots) ==
    LET available_dots == Len(dots)
    IN  IF available_dots > total_dots
        THEN [k \in 1..(available_dots - total_dots) |-> Despawn(dots[k].id)]
        ELSE IF available_dots < total_dots
        THEN [k \in 1..(total_dots - available_dots) |-> Spawn]
        ELSE [k \in 1..available_dots |-> Despawn(dots[k].id)]
                 \o [k \in 1..total_dots |-> Spawn]

\* the commands course_projection_system queues for a pool of dots
Reconcile(dots, total_dots) ==
    LET available_dots == Len(dots)
    IN  IF available_dots > total_dots
        THEN [k \in 1..(available_dots - total_dots) |-> Despawn(dots[k].id)]
        ELSE IF available_dots < total_dots
        THEN [k \in 1..(total_dots - available_dots) |-> Spawn]
        ELSE <<>>

\* an assignment loop that skips the first dot of the query
AssignSkippingFirst(dots, flat) ==
    [dots |-> [k \in 1..Len(dots) |->
                  IF 1 < k /\ k <= Len(flat) THEN [dots[k] EXCEPT !.tran = flat[k]]
                  ELSE dots[k]],
     panic |-> Len(dots) > Len(flat)]

\* the last loop: *transform = steps[i] for the i-th dot of the query, which
\* still holds every dot the commands are about to despawn and none of the
\* dots they are about to spawn; steps[i] panics once i is out of bounds,
\* the dots before it having been written
Assign(dots, flat) ==
    [dots |-> [k \in 1..Len(dots) |->
                  IF k <= Len(flat) THEN [dots[k] EXCEPT !.tran = flat[k]]
                  ELSE dots[k]],
     panic |-> Len(dots) > Len(flat)]

\* the ids the despawn commands of a queue name
Despawned(cmds) ==
    {cmds[k].id : k \in {n \in 1..Len(cmds) : cmds[n].op = "despawn"}}

\* the number of spawn commands in a queue
Spawned(cmds) == Cardinality({n \in 1..Len(cmds) : cmds[n].op = "spawn"})

\* the deferred commands applied at the end of the stage: the despawned
\* dots leave the query, each spawn adds a dot with the default transform
ApplyCommands(dots, cmds, next) ==
    [dots |-> SelectSeq(dots, LAMBDA d : d.id \notin Despawned(cmds))
                  \o [k \in 1..Spawned(cmds) |->
                         [id |-> next + k - 1, tran |-> DefaultTransform]],
     next_id |-> next + Spawned(cmds)]

\* ------------------------------------------------------------ user control
\* drot = PI * time.delta_seconds(), in the unit of the heading
drot(dt) == Div(step_precision * dt.num, dt.den)

\* the loop over input.get_pressed() from the i-th pressed key
RECURSIVE ControlLoop(_, _, _, _)
ControlLoop(e, pressed, i, dt) ==
    IF i > Len(pressed) THEN e
    ELSE ControlLoop(
             CASE pressed[i] = "W" -> [e EXCEPT !.engine[1].throttle = Fixed(TRUE)]
               [] pressed[i] = "S" -> [e EXCEPT !.engine[1].throttle = Fixed(FALSE)]
               [] pressed[i] = "A" ->
                      [e EXCEPT !.tran.rotation =
                                    (@ + drot(dt)) % (2 * step_precision)]
               [] pressed[i] = "D" ->
                      [e EXCEPT !.tran.rotation =
                                    (@ - drot(dt)) % (2 * step_precision)]
               [] OTHER -> e,
             pressed, i + 1, dt)

\* the closure of user_control_system on one controlled ship
Control(e, pressed, dt) ==
    ControlLoop(IF Len(pressed) = 0
                THEN [e EXCEPT !.engine[1].throttle = Fixed(FALSE)]
                ELSE e,
                pressed, 1, dt)

\* the keys held in a frame, in the order get_pressed() yields them
KeyInputs == {<<>>, <<"W">>, <<"A">>}

\* ------------------------------------------------------------------- state
VARIABLES
    bodies,      \* the entities with Kinimatics, in query order
    dots,        \* the ProjectionDot entities, in query order
    commands,    \* the deferred commands of this frame
    next_id,     \* the next fresh entity id
    pending,     \* the systems that have yet to run in this frame
    phase,       \* "update" while systems run, "applied" after the commands
    dt,          \* time.delta_seconds() of this frame
    frame,       \* the number of this frame
    fault,       \* the panic that ended the process, or "none"
    steps,       \* the flattened projection of this frame
    all_forces   \* the force lists of this frame's live tick

vars ==
    <<bodies, dots, commands, next_id, pending, phase, dt, frame, fault,
      steps, all_forces>>

Systems == {"kinimatics", "user_control", "course_projection"}

\* time.delta_seconds() of a frame, as a fraction: half a second, a frame
\* long enough for the change of a velocity to show in the position
Deltas == {[num |-> 1, den |-> 2]}

\* the populations a run starts from: the startup roster up to some body, or
\* a single one of its bodies
Populations == {1..n : n \in 0..MaxBodies} \cup {{i} : i \in 1..MaxBodies}

Init ==
    /\ \E S \in Populations : bodies = Population(S)
    /\ dots = <<>>
    /\ commands = <<>>
    /\ next_id = MaxBodies + 1
    /\ pending = Systems
    /\ phase = "update"
    /\ dt \in Deltas
    /\ frame = 1
    /\ fault = "none"
    /\ steps = <<>>
    /\ all_forces = <<>>

Running(system) ==
    /\ fault = "none"
    /\ phase = "update"
    /\ system \in pending

kinimatics_system ==
    /\ Running("kinimatics")
    /\ \E r \in {KinimaticsRun(bodies, dt)} :
           /\ bodies' = r.entities
           /\ all_forces' = r.all_forces
           /\ fault' = IF r.panic THEN "0 forces" ELSE "none"
    /\ pending' = pending \ {"kinimatics"}
    /\ UNCHANGED <<dots, commands, next_id, phase, dt, frame, steps>>

user_control_system ==
    /\ Running("user_control")
    /\ \E pressed \in KeyInputs :
           bodies' = [k \in 1..Len(bodies) |->
                         IF bodies[k].controlled
                         THEN Control(bodies[k], pressed, dt)
                         ELSE bodies[k]]
    /\ pending' = pending \ {"user_control"}
    /\ UNCHANGED <<dots, commands, next_id, phase, dt, frame, fault, steps,
                   all_forces>>

\* a projection that integrates the queried bodies themselves
course_projection_in_place ==
    /\ Running("course_projection")
    /\ \E r \in {ProjectionRun(bodies)} :
           /\ bodies' = r.entities
           /\ IF r.panic
              THEN /\ fault' = "0 forces"
                   /\ UNCHANGED <<dots, commands, steps>>
              ELSE \E a \in {Assign(dots, Flatten(r.steps))} :
                   /\ commands' =
                          commands
                              \o Reconcile(dots, Len(r.steps) * Len(r.entities))
                   /\ steps' = Flatten(r.steps)
                   /\ dots' = a.dots
                   /\ fault' = IF a.panic THEN "index out of bounds" ELSE "none"
    /\ pending' = pending \ {"course_projection"}
    /\ UNCHANGED <<next_id, phase, dt, frame, all_forces>>

\* a projection whose steps vector outlives the run and is never cleared
course_projection_accumulating ==
    /\ Running("course_projection")
    /\ \E r \in {ProjectionRun(CloneBodies(bodies))} :
           IF r.panic
           THEN /\ fault' = "0 forces"
                /\ UNCHANGED <<dots, commands, steps>>
           ELSE \E a \in {Assign(dots, steps \o Flatten(r.steps))} :
                /\ commands' =
                       commands \o Reconcile(dots, Len(r.steps) * Len(r.entities))
                /\ steps' = steps \o Flatten(r.steps)
                /\ dots' = a.dots
                /\ fault' = IF a.panic THEN "index out of bounds" ELSE "none"
    /\ pending' = pending \ {"course_projection"}
    /\ UNCHANGED <<bodies, next_id, phase, dt, frame, all_forces>>

course_projection_system ==
    /\ Running("course_projection")
    /\ \E r \in {ProjectionRun(CloneBodies(bodies))} :
           IF r.panic
           THEN /\ fault' = "0 forces"
                /\ UNCHANGED <<dots, commands, steps>>
           ELSE \E a \in {Assign(dots, Flatten(r.steps))} :
                /\ commands' =
                       commands \o Reconcile(dots, Len(r.steps) * Len(r.entities))
                /\ steps' = Flatten(r.steps)
                /\ dots' = a.dots
                /\ fault' = IF a.panic THEN "index out of bounds" ELSE "none"
    /\ pending' = pending \ {"course_projection"}
    /\ UNCHANGED <<bodies, next_id, phase, dt, frame, all_forces>>

\* the end of the update stage: the queued commands take effect
apply_commands ==
    /\ fault = "none"
    /\ phase = "update"
    /\ pending = {}
    /\ \E r \in {ApplyCommands(dots, commands, next_id)} :
           /\ dots' = r.dots
           /\ next_id' = r.next_id
    /\ commands' = <<>>
    /\ phase' = "applied"
    /\ UNCHANGED <<bodies, pending, dt, frame, fault, steps, all_forces>>

\* the next frame; before it the world inspector may have despawned the body
\* that comes last in the queries
next_frame ==
    /\ fault = "none"
    /\ phase = "applied"
    /\ frame < MaxFrames
    /\ \E gone \in {0, Len(bodies)} :
           bodies' = SelectSeq(bodies, LAMBDA b : gone = 0 \/ b # bodies[gone])
    /\ dt' \in Deltas
    /\ frame' = frame + 1
    /\ pending' = Systems
    /\ phase' = "update"
    /\ steps' = <<>>
    /\ all_forces' = <<>>
    /\ UNCHANGED <<dots, commands, next_id, fault>>

\* --------------------------------------------- the propulsion model's inputs
\* the values a Throttle can hold: both Fixed ones and Variable amounts in
\* and out of the range from 0.0 to 1.0
ThrottleInputs ==
    {Fixed(TRUE), Fixed(FALSE), Variable(0), Variable(UNIT \div 2),
     Variable(UNIT), Variable(UNIT + UNIT \div 2), Variable(-(UNIT \div 2))}

MaxThrustInputs == {0, 500, 1000}

\* headings of the ship, in the unit of the heading
HeadingInputs == {0, 3, 5, 10}

\* the ship of the startup system with an engine, throttle and heading drawn
\* from the inputs, alone or with the sun
ThrustInit ==
    /\ \E th \in ThrottleInputs, mt \in MaxThrustInputs, h \in HeadingInputs,
          sun \in BOOLEAN :
           bodies = (IF sun THEN <<RosterBody(1)>> ELSE <<>>)
                        \o <<[RosterBody(3) EXCEPT !.engine[1].throttle = th,
                                                   !.engine[1].max_thrust = mt,
                                                   !.tran.rotation = h]>>
    /\ dots = <<>>
    /\ commands = <<>>
    /\ next_id = MaxBodies + 1
    /\ pending = Systems
    /\ phase = "update"
    /\ dt \in Deltas
    /\ frame = 1
    /\ fault = "none"
    /\ steps = <<>>
    /\ all_forces = <<>>

ThrustNext == kinimatics_system

ThrustSpec == ThrustInit /\ [][ThrustNext]_vars

\* ------------------------------------------------------- two bodies apart
\* the masses of the two bodies and the distance between them
PairMassInputs == {100, 300, 2000}

SeparationInputs == {4, 6, 10, 20, 50, 100}

\* the directions along which the second body is placed
AxisInputs == {V(1, 0, 0), V(0, 1, 0)}

\* two bodies without engines, at rest, the second at a distance from the
\* first along an axis
GravityInit ==
    /\ \E m1 \in PairMassInputs, m2 \in PairMassInputs,
          d \in SeparationInputs, axis \in AxisInputs :
           bodies = <<Body(1, m1, V(6, 8, 0), ZERO, <<>>, FALSE),
                      Body(2, m2, V(6 + d * axis.x, 8 + d * axis.y, 0), ZERO,
                           <<>>, FALSE)>>
    /\ dots = <<>>
    /\ commands = <<>>
    /\ next_id = MaxBodies + 1
    /\ pending = {"kinimatics"}
    /\ phase = "update"
    /\ dt \in Deltas
    /\ frame = 1
    /\ fault = "none"
    /\ steps = <<>>
    /\ all_forces = <<>>

GravityNext == kinimatics_system

GravitySpec == GravityInit /\ [][GravityNext]_vars

\* ---------------------------------------------------------- body creation
\* the number of bodies spawned through the builder before the first frame
MaxSpawned == 2

\* KinimaticsBundle::build(): Self::default(), whose mass is 0.0
build ==
    [kinimatics |-> [velocity |-> ZERO, acceleration |-> ZERO, mass |-> 0],
     transform |-> DefaultTransform]

insert_translation(self, t) == [self EXCEPT !.transform.translation = t]

insert_velocity(self, v) == [self EXCEPT !.kinimatics.velocity = v]

insert_mass(self, m) == [self EXCEPT !.kinimatics.mass = m]

\* the entity commands.spawn().insert_bundle(..) makes of a bundle
InsertBundle(id, bundle) ==
    [id |-> id, mass |-> bundle.kinimatics.mass,
     velocity |-> bundle.kinimatics.velocity,
     acceleration |-> bundle.kinimatics.acceleration,
     tran |-> bundle.transform, engine |-> <<>>, controlled |-> FALSE]

\* the arguments a caller may hand to insert_mass and insert_translation
MassInputs == {-100, 0, 100}

TranslationInputs == {ZERO, V(6, 8, 0)}

\* the bundles a caller may build: with or without insert_mass
BundleInputs ==
    {insert_translation(b, t) :
        b \in {build} \cup {insert_mass(build, m) : m \in MassInputs},
        t \in TranslationInputs}

\* no body yet, the startup systems still to run
CreationInit ==
    /\ bodies = <<>>
    /\ dots = <<>>
    /\ commands = <<>>
    /\ next_id = MaxBodies + 1
    /\ pending = {}
    /\ phase = "startup"
    /\ dt \in Deltas
    /\ frame = 1
    /\ fault = "none"
    /\ steps = <<>>
    /\ all_forces = <<>>

\* a startup system spawns a body from a bundle
spawn_body ==
    /\ phase = "startup"
    /\ Len(bodies) < MaxSpawned
    /\ \E b \in BundleInputs :
           bodies' = Append(bodies, InsertBundle(Len(bodies) + 1, b))
    /\ UNCHANGED <<dots, commands, next_id, pending, phase, dt, frame, fault,
                   steps, all_forces>>

\* the startup stage ends and the first frame schedules the integrator and
\* the projector
first_frame ==
    /\ phase = "startup"
    /\ phase' = "update"
    /\ pending' = {"kinimatics", "course_projection"}
    /\ UNCHANGED <<bodies, dots, commands, next_id, dt, frame, fault, steps,
                   all_forces>>

CreationNext ==
    \/ spawn_body
    \/ first_frame
    \/ kinimatics_system
    \/ course_projection_system
    \/ apply_commands

CreationSpec == CreationInit /\ [][CreationNext]_vars

\* ------------------------------------------------ the projector run again
\* the sizes of the marker pool a first run of the projector may find
PoolSizes ==
    {0, 1, num_seconds * step_precision - 1, num_seconds * step_precision,
     num_seconds * step_precision + 1, 2 * num_seconds * step_precision,
     2 * num_seconds * step_precision + 1, 3 * num_seconds * step_precision}

\* a population of the startup systems and a pool of markers, with the
\* projector about to run
ProjectorInit ==
    /\ \E S \in Populations : bodies = Population(S)
    /\ \E m \in PoolSizes :
           /\ dots = [k \in 1..m |->
                         [id |-> MaxBodies + k, tran |-> DefaultTransform]]
           /\ next_id = MaxBodies + m + 1
    /\ commands = <<>>
    /\ pending = {"course_projection"}
    /\ phase = "update"
    /\ dt \in Deltas
    /\ frame = 1
    /\ fault = "none"
    /\ steps = <<>>
    /\ all_forces = <<>>

\* a further frame in which only the projector is scheduled: the live state
\* is as the run before found it, the pool as that run's commands left it
project_again ==
    /\ fault = "none"
    /\ phase = "applied"
    /\ frame < MaxFrames
    /\ frame' = frame + 1
    /\ pending' = {"course_projection"}
    /\ phase' = "update"
    /\ UNCHANGED <<bodies, dots, commands, next_id, dt, fault, steps,
                   all_forces>>

ProjectorNext ==
    \/ course_projection_system
    \/ apply_commands
    \/ project_again

ProjectorSpec == ProjectorInit /\ [][ProjectorNext]_vars

Next ==
    \/ kinimatics_system
    \/ user_control_system
    \/ course_projection_system
    \/ apply_commands
    \/ next_frame

Spec == Init /\ [][Next]_vars

\* -------------------------------------------------------------- properties
\* the number of positions a projection of the current bodies has
Needed == num_seconds * step_precision * Len(bodies)

\* steps of the systems, told by the system leaving the pending set
ProjectionStep ==
    "course_projection" \in pending /\ "course_projection" \notin pending'

KinimaticsStep == "kinimatics" \in pending /\ "kinimatics" \notin pending'

\* the projection of this frame has run and has emitted its sequence
Projected == "course_projection" \notin pending /\ fault # "0 forces"

Ids(ds) == {ds[k].id : k \in 1..Len(ds)}

\* the attraction of body b on body a: G * m_a * m_b / distance^2 along the
\* unit vector from a toward b
Attraction(a, b) ==
    IF a.tran.translation.nan \/ b.tran.translation.nan
           \/ a.tran.translation = b.tran.translation
    THEN NaNVec
    ELSE MulUnit(normalize(VSub(b.tran.translation, a.tran.translation)),
                 Div(GRAVITATIONAL_CONSTANT * a.mass * b.mass,
                     distance_squared(a.tran.translation, b.tran.translation)))

\* the attractions of all other bodies on body k, by their index
AttractionsOn(ents, k) ==
    [n \in 1..(Len(ents) - 1) |->
        Attraction(ents[k], ents[IF n < k THEN n ELSE n + 1])]

RECURSIVE VSum(_)
VSum(list) ==
    IF list = <<>> THEN ZERO
    ELSE VAdd(VSum(SubSeq(list, 1, Len(list) - 1)), list[Len(list)])

Count(list, v) == Cardinality({n \in 1..Len(list) : list[n] = v})

SameBag(s, t) ==
    /\ Len(s) = Len(t)
    /\ \A n \in 1..Len(s) : Count(s, s[n]) = Count(t, s[n])

DistinctPositions(ents) ==
    \A i, j \in 1..Len(ents) :
        /\ ~ents[i].tran.translation.nan
        /\ (i # j => ents[i].tran.translation # ents[j].tran.translation)

\* the total force on body k when every attraction is taken from the
\* positions in ents
NetForce(ents, k) ==
    VAdd(VSum(AttractionsOn(ents, k)),
         IF ents[k].engine # <<>> THEN Thrust(ents[k].tran, ents[k].engine[1])
         ELSE ZERO)

\* one evaluation in which every body is advanced by the forces of the
\* positions all bodies had at its start
SnapshotTick(ents, delta) ==
    [k \in 1..Len(ents) |-> Advance(ents[k], <<NetForce(ents, k)>>, delta)]

\* one such evaluation added to a projection: the bodies it leaves and the
\* transforms recorded so far
SnapshotStep(ref) ==
    LET next == SnapshotTick(ref.ents, [num |-> 1, den |-> step_precision])
    IN  [ents |-> next,
         out |-> ref.out \o [k \in 1..Len(next) |-> next[k].tran]]

RECURSIVE SnapshotSteps(_, _)
SnapshotSteps(ref, n) ==
    IF n = 0 THEN ref ELSE SnapshotStep(SnapshotSteps(ref, n - 1))

RECURSIVE SnapshotSeconds(_, _)
SnapshotSeconds(ents, s) ==
    IF s = 0 THEN [ents |-> ents, out |-> <<>>]
    ELSE LET before == SnapshotSeconds(ents, s - 1)
         IN  IF before.ents = <<>> THEN before
             ELSE SnapshotSteps(before, step_precision)

\* the transforms such evaluations record over the whole horizon
SnapshotProjection(ents) == SnapshotSeconds(ents, num_seconds).out

\* C1: a run of course_projection_system leaves every live body exactly as
\* it was (position, orientation, velocity, acceleration, mass, engine):
\* the integration writes to the cloned set only.
C1_ProjectionLeavesLiveBodies == [][ProjectionStep => bodies' = bodies]_vars

C1_Witness ==
    /\ Projected
    /\ "kinimatics" \in pending
    /\ Len(bodies) >= 2
    /\ Len(steps) = Needed

\* C2: a live tick on a single body with zero velocity and no engine
\* completes normally, leaves its position unchanged and sets its
\* acceleration to zero.
C2_IsolationStability ==
    [][(/\ KinimaticsStep
        /\ Len(bodies) = 1
        /\ bodies[1].velocity = ZERO
        /\ bodies[1].engine = <<>>)
       => (/\ fault' = "none"
           /\ bodies'[1].tran.translation = bodies[1].tran.translation
           /\ bodies'[1].acceleration = ZERO)]_vars

\* C3: once the reconciler has run and its requests are applied, there are
\* as many markers as emitted positions, the i-th marker holds the i-th
\* emitted position, and the assignment has read no index past the last
\* emitted position.
C3_MarkersHoldProjection ==
    /\ fault # "index out of bounds"
    /\ phase = "applied" =>
           /\ Len(dots) = Len(steps)
           /\ \A k \in 1..Len(dots) : dots[k].tran = steps[k]

\* C4: the flattened sequence the projector emits for B bodies has exactly
\* num_seconds * step_precision * B positions, for every B >= 0.
C4_EmittedCount == Projected => Len(steps) = Needed

C4_Witness ==
    /\ Projected
    /\ Len(bodies) = MaxBodies
    /\ Len(steps) = num_seconds * step_precision * MaxBodies

\* C5: the create and destroy requests of one run of the reconciler, once
\* applied, leave exactly num_seconds * step_precision * B markers in the
\* pool, whatever the pool held before the run.
C5_PoolCountAfterRequests ==
    /\ (Projected /\ phase = "update") =>
           Len(ApplyCommands(dots, commands, next_id).dots) = Needed
    /\ phase = "applied" => Len(dots) = Needed

C5_Witness == phase = "applied" /\ frame = 1 /\ Len(dots) >= 2 * num_seconds

\* C6: with more markers in the pool than the projection needs (M > N) the
\* reconciler requests the destruction of exactly M - N markers, all
\* distinct and all in the pool, and no creation.
C6_DestroysTheSurplus ==
    (Projected /\ phase = "update" /\ Len(dots) > Needed) =>
        /\ Len(commands) = Len(dots) - Needed
        /\ \A k \in 1..Len(commands) :
               commands[k].op = "despawn" /\ commands[k].id \in Ids(dots)
        /\ Cardinality(Despawned(commands)) = Len(commands)

C6_Witness ==
    /\ Projected
    /\ Len(dots) > Needed
    /\ Len(commands) >= 2
    /\ Despawned(commands) # {}

\* C7: with fewer markers in the pool than the projection needs (M < N) the
\* reconciler requests the creation of exactly N - M markers and no
\* destruction.
C7_CreatesTheMissing ==
    (Projected /\ phase = "update" /\ Len(dots) < Needed) =>
        /\ Len(commands) = Needed - Len(dots)
        /\ \A k \in 1..Len(commands) : commands[k].op = "spawn"

C7_Witness ==
    /\ Projected
    /\ phase = "update"
    /\ Len(dots) < Needed
    /\ Spawned(commands) > 0

\* C8: with exactly as many markers as the projection needs (M = N) the
\* reconciler issues no request, and the marker identities are the same
\* before and after the run and before and after the commands are applied.
C8_NoRequestWhenEqual ==
    [][/\ (ProjectionStep /\ fault' # "0 forces" /\ Len(dots) = Needed) =>
              (commands' = commands /\ Ids(dots') = Ids(dots))
       /\ (phase = "update" /\ phase' = "applied" /\ Len(dots) = Needed) =>
              (commands = <<>> /\ Ids(dots') = Ids(dots))]_vars

C8_Witness ==
    /\ phase = "applied"
    /\ frame > 1
    /\ Len(dots) = Needed
    /\ Len(dots) > 0
    /\ \A k \in 1..Len(dots) : dots[k].tran = steps[k]

\* C9: every pair force of a live tick, and of each step of a projection,
\* is computed from the positions all bodies had at the start of that tick
\* or step: the gravity pass is over before any position is written.
C9_ForcesFromOneSnapshot ==
    [][/\ (KinimaticsStep /\ fault' = "none") =>
              /\ bodies' = SnapshotTick(bodies, dt)
              /\ \A k \in 1..Len(bodies) : \A n \in 1..(Len(bodies) - 1) :
                     all_forces'[k][n] \in
                         {Attraction(bodies[k], bodies[j]) :
                              j \in 1..Len(bodies) \ {k}}
       /\ (ProjectionStep /\ fault' # "0 forces") =>
              steps' = SnapshotProjection(bodies)]_vars

C9_Witness ==
    /\ Projected
    /\ "kinimatics" \notin pending
    /\ fault = "none"
    /\ Len(bodies) >= 2
    /\ \E k \in 1..Len(bodies) : bodies[k].tran.translation # steps[k].translation

\* C10: with three or more bodies at pairwise distinct positions the gravity
\* forces accumulated for body k in one evaluation are exactly the
\* attractions of every other body on k, each once, and their sum is the sum
\* of those attractions.
C10_GravityIsSumOfAttractions ==
    [][(/\ KinimaticsStep
        /\ fault' = "none"
        /\ Len(bodies) >= 3
        /\ DistinctPositions(bodies))
       => \A k \in 1..Len(bodies) :
              /\ Len(all_forces'[k]) =
                     Len(bodies) - 1 + (IF bodies[k].engine # <<>> THEN 1 ELSE 0)
              /\ SameBag(SubSeq(all_forces'[k], 1, Len(bodies) - 1),
                         AttractionsOn(bodies, k))
              /\ VSum(SubSeq(all_forces'[k], 1, Len(bodies) - 1)) =
                     VSum(AttractionsOn(bodies, k))]_vars

C10_Witness ==
    /\ "kinimatics" \notin pending
    /\ fault = "none"
    /\ frame = 1
    /\ Len(bodies) >= 3
    /\ \A k \in 1..Len(bodies) : Len(all_forces[k]) >= Len(bodies) - 1
    /\ \E k \in 1..Len(bodies) : all_forces[k][1] # all_forces[k][2]

\* the gravity entry recorded in the list of body i for the pair with body j
\* (the entries of a list are in the order of the other bodies' indices)
GravityEntry(forces, i, j) == forces[i][IF j < i THEN j ELSE j - 1]

VNeg(v) == IF v.nan THEN NaNVec ELSE V(-v.x, -v.y, -v.z)

\* C11: Newton's third law.  For every pair of bodies (i, j) at distinct
\* positions the force recorded for i from j and the force recorded for j
\* from i in one evaluation are finite, each is the unit vector toward the
\* other body scaled by G * m_i * m_j / d^2, and each is the exact negation
\* of the other.
C11_ThirdLaw ==
    [][(KinimaticsStep /\ fault' = "none") =>
          \A i, j \in 1..Len(bodies) :
              (/\ i < j
               /\ ~bodies[i].tran.translation.nan
               /\ ~bodies[j].tran.translation.nan
               /\ bodies[i].tran.translation # bodies[j].tran.translation)
              => LET fij == GravityEntry(all_forces', i, j)
                     fji == GravityEntry(all_forces', j, i)
                     mag == Div(GRAVITATIONAL_CONSTANT * bodies[i].mass
                                    * bodies[j].mass,
                                distance_squared(bodies[i].tran.translation,
                                                 bodies[j].tran.translation))
                 IN  /\ ~fij.nan /\ ~fji.nan
                     /\ fij = MulUnit(normalize(VSub(bodies[j].tran.translation,
                                                     bodies[i].tran.translation)),
                                      mag)
                     /\ fji = VNeg(fij)
                     /\ fij = VNeg(fji)]_vars

C11_Witness ==
    /\ "kinimatics" \notin pending
    /\ fault = "none"
    /\ Len(bodies) >= 2
    /\ ~GravityEntry(all_forces, 1, 2).nan
    /\ GravityEntry(all_forces, 1, 2) # ZERO
    /\ GravityEntry(all_forces, 2, 1) = VNeg(GravityEntry(all_forces, 1, 2))

\* the number of gravity entries in the list of body k once the tick has run:
\* the entries of the list less the thrust the integrator pushed
GravityEntries(k) ==
    Len(all_forces[k]) - (IF bodies[k].engine # <<>> THEN 1 ELSE 0)

RECURSIVE SumOfGravityEntries(_)
SumOfGravityEntries(k) ==
    IF k = 0 THEN 0 ELSE SumOfGravityEntries(k - 1) + GravityEntries(k)

\* C12: in one evaluation over n bodies every unordered pair {i, j}, i # j,
\* is evaluated exactly once and no pair (i, i): each evaluation appends one
\* force to each of the two bodies' lists, so the lists hold 2 * n*(n-1)/2
\* gravity entries in all, n - 1 in every list, and the entry of i for j is
\* the negation of the entry of j for i.
C12_EachPairOnce ==
    "kinimatics" \notin pending =>
        /\ Len(all_forces) = Len(bodies)
        /\ \A k \in 1..Len(bodies) : GravityEntries(k) = Len(bodies) - 1
        /\ SumOfGravityEntries(Len(bodies)) =
               2 * ((Len(bodies) * (Len(bodies) - 1)) \div 2)
        /\ \A i, j \in 1..Len(bodies) :
               i < j => GravityEntry(all_forces, i, j) =
                            VNeg(GravityEntry(all_forces, j, i))

C12_Witness ==
    /\ "kinimatics" \notin pending
    /\ fault = "none"
    /\ Len(bodies) = MaxBodies
    /\ SumOfGravityEntries(MaxBodies) = MaxBodies * (MaxBodies - 1)
    /\ \A k \in 1..MaxBodies : GravityEntries(k) = MaxBodies - 1

\* C13: the integrator is semi-implicit Euler.  For every body of a tick
\* acceleration = (gravity + thrust) / mass, the thrust left out when the
\* body has no engine, then velocity = old velocity + acceleration * dt, then
\* position = old position + the new velocity * dt.
C13_SemiImplicitEuler ==
    [][(KinimaticsStep /\ fault' = "none") =>
          /\ Len(bodies') = Len(bodies)
          /\ \A k \in 1..Len(bodies) :
                 LET acceleration ==
                         VDivScalar(NetForce(bodies, k), bodies[k].mass)
                     velocity ==
                         VAdd(bodies[k].velocity, VMulDt(acceleration, dt))
                 IN  /\ bodies'[k].acceleration = acceleration
                     /\ bodies'[k].velocity = velocity
                     /\ bodies'[k].tran.translation =
                            VAdd(bodies[k].tran.translation,
                                 VMulDt(velocity, dt))
                     /\ bodies'[k].tran.rotation = bodies[k].tran.rotation
                     /\ bodies'[k].mass = bodies[k].mass
                     /\ bodies'[k].engine = bodies[k].engine]_vars

\* a tick has run in which some body moved by its new velocity and would
\* have moved otherwise by the velocity it had before
C13_Witness ==
    /\ "kinimatics" \notin pending
    /\ fault = "none"
    /\ \E k \in 1..Len(bodies) :
           /\ ~bodies[k].velocity.nan
           /\ VMulDt(bodies[k].velocity, dt) #
                  VMulDt(VSub(bodies[k].velocity,
                              VMulDt(bodies[k].acceleration, dt)), dt)

\* the force the integrator pushed last on the list of body k
LastForce(forces, k) == forces[k][Len(forces[k])]

\* C14: the thrust added for a body with an engine has the magnitude
\* max_thrust for Fixed(true), 0 for Fixed(false) and amount * max_thrust for
\* Variable(amount), the amount not clamped: it lies along the ship's forward
\* axis, Variable(0.0) and Fixed(false) add the zero force, and for a ship
\* heading along +y Fixed(true) adds (0, max_thrust, 0) and Variable(amount)
\* adds (0, amount * max_thrust, 0), half of max_thrust for 0.5 and one and a
\* half of it for 1.5.
C14_ThrustMagnitude ==
    [][KinimaticsStep =>
          \A k \in 1..Len(bodies) :
              bodies[k].engine # <<>> =>
                  LET t == bodies[k].engine[1]
                      f == LastForce(all_forces', k)
                      magnitude ==
                          IF t.throttle.kind = "Fixed"
                          THEN IF t.throttle.on THEN t.max_thrust ELSE 0
                          ELSE Div(t.throttle.amount * t.max_thrust, UNIT)
                  IN  /\ Len(all_forces'[k]) = Len(bodies)
                      /\ f = MulUnit(Forward(bodies[k].tran.rotation), magnitude)
                      /\ (t.throttle = Fixed(FALSE) \/ t.throttle = Variable(0))
                             => f = ZERO
                      /\ bodies[k].tran.rotation = 0 =>
                             /\ f.x = 0 /\ f.z = 0
                             /\ t.throttle = Fixed(TRUE) => f.y = t.max_thrust
                             /\ t.throttle.kind = "Variable" =>
                                    UNIT * f.y = t.throttle.amount * t.max_thrust
                             /\ t.throttle = Variable(UNIT \div 2) =>
                                    2 * f.y = t.max_thrust]_vars

C14_Witness ==
    /\ "kinimatics" \notin pending
    /\ fault = "none"
    /\ \E k \in 1..Len(bodies) :
           /\ bodies[k].engine # <<>>
           /\ bodies[k].engine[1].throttle = Variable(UNIT \div 2)
           /\ bodies[k].engine[1].max_thrust = 1000
           /\ bodies[k].tran.rotation = 0
           /\ LastForce(all_forces, k) = V(0, 500, 0)

\* the thrust of every body as the live snapshot gives it, zero without engine
LiveThrusts(ents) ==
    [k \in 1..Len(ents) |->
        IF ents[k].engine # <<>> THEN Thrust(ents[k].tran, ents[k].engine[1])
        ELSE ZERO]

\* one step in which body k is pushed by the given thrust, whatever its
\* engine and orientation are by then
FixedThrustTick(ents, thrusts, delta) ==
    [k \in 1..Len(ents) |->
        Advance(ents[k], <<VAdd(VSum(AttractionsOn(ents, k)), thrusts[k])>>,
                delta)]

\* one such step added to a projection: the bodies it leaves, the thrusts and
\* the positions recorded so far
FixedThrustStep(ref) ==
    LET next == FixedThrustTick(ref.ents, ref.thrusts,
                                [num |-> 1, den |-> step_precision])
    IN  [ents |-> next, thrusts |-> ref.thrusts,
         out |-> ref.out \o [k \in 1..Len(next) |-> next[k].tran.translation]]

RECURSIVE FixedThrustSteps(_, _)
FixedThrustSteps(ref, n) ==
    IF n = 0 THEN ref ELSE FixedThrustStep(FixedThrustSteps(ref, n - 1))

RECURSIVE FixedThrustSeconds(_, _, _)
FixedThrustSeconds(ents, thrusts, s) ==
    IF s = 0 THEN [ents |-> ents, thrusts |-> thrusts, out |-> <<>>]
    ELSE LET before == FixedThrustSeconds(ents, thrusts, s - 1)
         IN  IF before.ents = <<>> THEN before
             ELSE FixedThrustSteps(before, step_precision)

\* the positions such steps record over the whole horizon
FixedThrustProjection(ents, thrusts) ==
    FixedThrustSeconds(ents, thrusts, num_seconds).out

\* the cloned bodies after the first step of a projection of ents
ClonesAfterOneStep(ents) == ProjStepLoop(CloneBodies(ents), 1).entities

\* C15: throughout one projection the throttle, max_thrust, fuel and
\* orientation of every cloned body keep the values of the live snapshot:
\* the engine of a clone is unchanged by a step, every emitted transform has
\* the live orientation, and the emitted positions are those of a projection
\* that applies to each body at every step the thrust vector of the snapshot.
C15_ThrottleHeldInProjection ==
    [][(ProjectionStep /\ fault' # "0 forces") =>
          /\ \A k \in 1..Len(bodies) :
                 /\ ClonesAfterOneStep(bodies)[k].engine = bodies[k].engine
                 /\ ClonesAfterOneStep(bodies)[k].tran.rotation =
                        bodies[k].tran.rotation
          /\ \A n \in 1..Len(steps') :
                 steps'[n].rotation =
                     bodies[((n - 1) % Len(bodies)) + 1].tran.rotation
          /\ [n \in 1..Len(steps') |-> steps'[n].translation] =
                 FixedThrustProjection(bodies, LiveThrusts(bodies))]_vars

\* a projection has run on a ship under thrust, before the tick and the
\* controls of its frame
C15_Witness ==
    /\ Projected
    /\ "kinimatics" \in pending
    /\ "user_control" \in pending
    /\ Len(steps) = Needed
    /\ \E k \in 1..Len(bodies) :
           /\ bodies[k].engine # <<>>
           /\ LiveThrusts(bodies)[k] # ZERO
           /\ steps[Len(steps) - Len(bodies) + k].translation #
                  bodies[k].tran.translation

C18_MassPositive == \A k \in 1..Len(bodies) : bodies[k].mass > 0

\* every mass positive, every vector of every body finite
WellFormed(ents) ==
    \A k \in 1..Len(ents) :
        /\ ents[k].mass > 0
        /\ ~ents[k].acceleration.nan
        /\ ~ents[k].velocity.nan
        /\ ~ents[k].tran.translation.nan

\* two of the bodies occupy the same position
Coincident(ents) ==
    \E i, j \in 1..Len(ents) :
        i # j /\ ents[i].tran.translation = ents[j].tran.translation

\* C19: when two bodies occupy the same position the gravity accumulator
\* applies a defined policy: the live tick is not aborted and leaves every
\* body's acceleration, velocity and position finite, and the projection of
\* such a set is not aborted and emits finite positions only.
C19_CoincidentPolicy ==
    [][(WellFormed(bodies) /\ Coincident(bodies)) =>
          /\ KinimaticsStep => (fault' = "none" /\ WellFormed(bodies'))
          /\ ProjectionStep =>
                 /\ fault' # "0 forces"
                 /\ \A k \in 1..Len(steps') : ~steps'[k].translation.nan]_vars

UserControlStep == "user_control" \in pending /\ "user_control" \notin pending'

\* the part of a body's state the integrator writes
Kinematic(b) == <<b.tran.translation, b.velocity, b.acceleration>>

\* every body found after the step is a body found before it, unaltered
NoBodyWritten == \A k \in 1..Len(bodies') : \E j \in 1..Len(bodies) : bodies'[k] = bodies[j]

\* the integrator's step writes position, velocity and acceleration of every
\* body once, by one advance of dt, and nothing else of it; in a tick it
\* aborts on an empty force list the body is left unwritten
IntegratedOnce ==
    /\ Len(bodies') = Len(bodies)
    /\ \A k \in 1..Len(bodies) :
           /\ bodies'[k] = [bodies[k] EXCEPT
                               !.tran.translation = bodies'[k].tran.translation,
                               !.velocity = bodies'[k].velocity,
                               !.acceleration = bodies'[k].acceleration]
           /\ \/ Kinematic(bodies'[k]) = Kinematic(SnapshotTick(bodies, dt)[k])
              \/ fault' = "0 forces" /\ bodies'[k] = bodies[k]

\* the control step writes the orientation and the throttle of a controlled
\* body and nothing else
ControlWritesHeadingAndThrottle ==
    /\ Len(bodies') = Len(bodies)
    /\ \A k \in 1..Len(bodies) :
           IF bodies[k].controlled
           THEN /\ bodies[k].engine # <<>>
                /\ bodies'[k] = [bodies[k] EXCEPT
                                    !.tran.rotation = bodies'[k].tran.rotation,
                                    !.engine[1].throttle =
                                        bodies'[k].engine[1].throttle]
           ELSE bodies'[k] = bodies[k]

\* C20 as stated: in every tick position, velocity and acceleration of each
\* live body are written exactly once, by kinimatics_system, and no other
\* step writes any part of a live body's state.
C20_OnlyIntegratorWrites ==
    [][/\ KinimaticsStep => IntegratedOnce
       /\ ~KinimaticsStep => NoBodyWritten]_vars

\* C20 amended: in every tick position, velocity and acceleration of each
\* live body are written exactly once, by kinimatics_system; the projector
\* and every other step write no part of a live body's state, except that
\* user_control_system writes the orientation and the throttle of the
\* controlled ship.
C20_WritersOfLiveState ==
    [][/\ KinimaticsStep => IntegratedOnce
       /\ UserControlStep => ControlWritesHeadingAndThrottle
       /\ (~KinimaticsStep /\ ~UserControlStep) => NoBodyWritten]_vars

\* a tick in which the control step has turned the ship and set its throttle
\* and the integrator has moved it under gravity and thrust
C20_Witness ==
    /\ pending = {}
    /\ fault = "none"
    /\ Len(bodies) >= 2
    /\ \E k \in 1..Len(bodies) :
           /\ bodies[k].controlled
           /\ bodies[k].tran.rotation # 0
           /\ bodies[k].engine[1].throttle = Fixed(TRUE)
           /\ bodies[k].velocity # ZERO

\* the force lists are empty at the start of each of the next n steps of the
\* projection proj
RECURSIVE StepsStartEmpty(_, _)
StepsStartEmpty(proj, n) ==
    IF n = 0 \/ proj.panic THEN TRUE
    ELSE /\ proj.all_forces = EmptyForces(Len(proj.entities))
         /\ StepsStartEmpty(ProjStep(proj), n - 1)

\* the entries a live tick leaves in the list of body k when the list was
\* empty at its start: one per other body, and the thrust of an engine
EntriesOfOneTick(ents, k) ==
    Len(ents) - 1 + (IF ents[k].engine # <<>> THEN 1 ELSE 0)

\* C21: the per-body force lists are empty at the start of every evaluation:
\* a live tick leaves in each list the forces of that tick only, in the
\* first frame and in every later one, and each of the 50 steps of a
\* projection starts with every list empty.
C21_ForceListsStartEmpty ==
    [][/\ (KinimaticsStep /\ fault' = "none") =>
              /\ Len(all_forces') = Len(bodies)
              /\ \A k \in 1..Len(bodies) :
                     Len(all_forces'[k]) = EntriesOfOneTick(bodies, k)
       /\ ProjectionStep =>
              StepsStartEmpty(ProjStepLoop(CloneBodies(bodies), 0),
                              num_seconds * step_precision)]_vars

\* the second frame's tick and projection have both run on two bodies or more
C21_Witness ==
    /\ frame = 2
    /\ Projected
    /\ "kinimatics" \notin pending
    /\ fault = "none"
    /\ Len(bodies) >= 2
    /\ Len(steps) = Needed
    /\ \A k \in 1..Len(bodies) : Len(all_forces[k]) >= 1

\* the magnitude of a force that lies along one axis
AxisMagnitude(v) ==
    (IF v.x < 0 THEN -v.x ELSE v.x) + (IF v.y < 0 THEN -v.y ELSE v.y)
        + (IF v.z < 0 THEN -v.z ELSE v.z)

\* body o moved along the line from q to num / den of its distance from q
AtDistance(q, o, num, den) ==
    LET qt == q.tran.translation
        ot == o.tran.translation
    IN  [o EXCEPT !.tran.translation =
                      V(qt.x + Div((ot.x - qt.x) * num, den),
                        qt.y + Div((ot.y - qt.y) * num, den),
                        qt.z + Div((ot.z - qt.z) * num, den))]

\* C22: inverse-square scaling.  For two bodies of fixed masses the force
\* magnitude at twice the distance of the tick is one quarter of the
\* magnitude the tick computed, and the magnitude at half the distance is
\* four times it (a quarter and a fourfold to the rounding of the division).
C22_InverseSquare ==
    [][KinimaticsStep =>
          LET q == bodies[1]
              o == bodies[2]
              mag == AxisMagnitude(all_forces'[1][1])
              far == AxisMagnitude(PairForce(q, AtDistance(q, o, 2, 1)).d1)
              near == AxisMagnitude(PairForce(q, AtDistance(q, o, 1, 2)).d1)
          IN  /\ far = Div(mag, 4)
              /\ mag = Div(near, 4)
              /\ (mag % 4 = 0) => 4 * far = mag
              /\ 4 * mag <= near /\ near < 4 * mag + 4]_vars

\* a tick has computed a force whose quarter is exact and not zero
C22_Witness ==
    /\ "kinimatics" \notin pending
    /\ Len(all_forces) = 2
    /\ Len(all_forces[1]) = 1
    /\ AxisMagnitude(all_forces[1][1]) >= 4
    /\ AxisMagnitude(all_forces[1][1]) % 4 = 0

\* one live tick of kinimatics_system with dt = 1 / step_precision added to
\* a run of ticks: the bodies it leaves and the transforms seen so far
LiveTick(ref) ==
    LET r == KinimaticsRun(ref.ents, [num |-> 1, den |-> step_precision])
    IN  [ents |-> r.entities,
         out |-> ref.out \o [k \in 1..Len(r.entities) |-> r.entities[k].tran]]

RECURSIVE LiveTicks(_, _)
LiveTicks(ref, n) == IF n = 0 THEN ref ELSE LiveTick(LiveTicks(ref, n - 1))

\* the live ticks of s seconds from the bodies ents
RECURSIVE LiveSeconds(_, _)
LiveSeconds(ents, s) ==
    IF s = 0 THEN [ents |-> ents, out |-> <<>>]
    ELSE LET before == LiveSeconds(ents, s - 1)
         IN  IF before.ents = <<>> THEN before
             ELSE LiveTicks(before, step_precision)

\* C23: the projector refines the live simulation.  For a snapshot of two
\* bodies or more the position recorded for body b at step k, 1 <= k <= 50,
\* is the position of body b after k consecutive live ticks of
\* kinimatics_system with dt = 1/10 from that snapshot, no control step in
\* between.
C23_ProjectorRefinesLiveTicks ==
    [][(ProjectionStep /\ Len(bodies) >= 2) =>
          LET live == LiveSeconds(bodies, num_seconds).out
              B == Len(bodies)
          IN  /\ fault' # "0 forces"
              /\ Len(steps') = Len(live)
              /\ \A k \in 1..(num_seconds * step_precision), b \in 1..B :
                     steps'[(k - 1) * B + b].translation =
                         live[(k - 1) * B + b].translation]_vars

\* a projection of two bodies or more has run before the control step and
\* the tick of its frame, and its last position is not the live one
C23_Witness ==
    /\ Projected
    /\ pending = {"kinimatics", "user_control"}
    /\ fault = "none"
    /\ Len(bodies) >= 2
    /\ Len(steps) = Needed
    /\ steps[Len(steps)].translation # bodies[Len(bodies)].tran.translation

\* from step s on, the sequence out holds at index s * B + b (b from 0) the
\* position the b-th of the bodies ents has after one more evaluation, and
\* it ends with the last step
RECURSIVE EmitsStepMajor(_, _, _)
EmitsStepMajor(ents, out, s) ==
    IF s = num_seconds * step_precision THEN Len(out) = s * Len(ents)
    ELSE \E next \in {SnapshotTick(ents, [num |-> 1, den |-> step_precision])} :
             /\ \A b \in 0..(Len(ents) - 1) :
                    out[s * Len(ents) + b + 1].translation =
                        next[b + 1].tran.translation
             /\ EmitsStepMajor(next, out, s + 1)

\* C24: the flattened emission order is step-major: with B bodies the
\* element at index s * B + b, 0 <= s < 50, 0 <= b < B, is the position of
\* the b-th cloned body after s + 1 integration steps; the sequence starts
\* with the positions after the first step and has 50 * B elements, so the
\* un-stepped live positions are no part of it.
C24_StepMajorOrder ==
    [][(ProjectionStep /\ fault' # "0 forces") =>
          /\ Len(steps') = Needed
          /\ EmitsStepMajor(bodies, steps', 0)]_vars

\* a projection of two bodies or more in which a body's position after the
\* second step is not its position after the first
C24_Witness ==
    /\ Projected
    /\ fault = "none"
    /\ Len(bodies) >= 2
    /\ Len(steps) = Needed
    /\ steps[1].translation # steps[2].translation
    /\ \E b \in 1..Len(bodies) :
           steps[b].translation # steps[Len(bodies) + b].translation

\* C25: a live tick changes only acceleration, velocity and position of each
\* body: mass and orientation of every body and fuel, max_thrust and
\* throttle of every engine are after the tick what they were before it, in
\* a tick that aborts as well, and after any number of ticks the mass, the
\* fuel and the max_thrust of a body are those it was spawned with.
C25_TickWritesKinematicsOnly ==
    [][/\ KinimaticsStep =>
              /\ Len(bodies') = Len(bodies)
              /\ \A k \in 1..Len(bodies) :
                     /\ bodies'[k].id = bodies[k].id
                     /\ bodies'[k].mass = bodies[k].mass
                     /\ bodies'[k].tran.rotation = bodies[k].tran.rotation
                     /\ bodies'[k].controlled = bodies[k].controlled
                     /\ (bodies[k].engine = <<>>) = (bodies'[k].engine = <<>>)
                     /\ bodies[k].engine # <<>> =>
                            /\ bodies'[k].engine[1].fuel = bodies[k].engine[1].fuel
                            /\ bodies'[k].engine[1].max_thrust =
                                   bodies[k].engine[1].max_thrust
                            /\ bodies'[k].engine[1].throttle =
                                   bodies[k].engine[1].throttle
       /\ \A k \in 1..Len(bodies') :
              LET spawned == RosterBody(bodies'[k].id)
              IN  /\ bodies'[k].mass = spawned.mass
                  /\ (bodies'[k].engine = <<>>) = (spawned.engine = <<>>)
                  /\ spawned.engine # <<>> =>
                         /\ bodies'[k].engine[1].fuel = spawned.engine[1].fuel
                         /\ bodies'[k].engine[1].max_thrust =
                                spawned.engine[1].max_thrust]_vars

\* the second tick has run with the ship's engine on and has accelerated it
C25_Witness ==
    /\ frame = 2
    /\ "kinimatics" \notin pending
    /\ fault = "none"
    /\ \E k \in 1..Len(bodies) :
           /\ bodies[k].engine # <<>>
           /\ bodies[k].engine[1].throttle = Fixed(TRUE)
           /\ bodies[k].engine[1].fuel = RosterBody(bodies[k].id).engine[1].fuel
           /\ bodies[k].acceleration # ZERO
           /\ bodies[k].velocity # ZERO

\* the bodies ents with the stored acceleration of every body replaced by a
WithAcceleration(ents, a) ==
    [k \in 1..Len(ents) |-> [ents[k] EXCEPT !.acceleration = a]]

\* accelerations a body may have stored before a tick
StoredAccelerations == {ZERO, V(7, -3, 0), V(-2000, 500, 0), NaNVec}

\* C26: the stored acceleration is a pure output of a tick: the bodies a
\* completed tick leaves are the bodies the tick leaves when it is started
\* from the same state with any other accelerations stored.
C26_AccelerationIsOutput ==
    [][(KinimaticsStep /\ fault' = "none") =>
          \A a \in StoredAccelerations :
              LET other == KinimaticsRun(WithAcceleration(bodies, a), dt)
              IN  ~other.panic /\ other.entities = bodies']_vars

\* a second tick has run on bodies that held the accelerations of the first
C26_Witness ==
    /\ frame = 2
    /\ "kinimatics" \notin pending
    /\ "course_projection" \in pending
    /\ fault = "none"
    /\ Len(bodies) >= 2
    /\ \E k \in 1..Len(bodies) :
           bodies[k].acceleration # ZERO /\ ~bodies[k].acceleration.nan

\* the body set is one body without an Engine
LoneBodyWithoutEngine(ents) == Len(ents) = 1 /\ ents[1].engine = <<>>

\* C27: a live tick, and a projection, aborts with "0 forces" exactly when
\* the body set is one body without an Engine: with no body, with two
\* bodies or more, or with an Engine on the lone body, at zero throttle as
\* well, it never aborts for this reason.
C27_ZeroForcesOnlyForLoneBody ==
    [][/\ KinimaticsStep =>
              ((fault' = "0 forces") <=> LoneBodyWithoutEngine(bodies))
       /\ ProjectionStep =>
              ((fault' = "0 forces") <=> LoneBodyWithoutEngine(bodies))]_vars

\* the ship alone, its engine giving no thrust, has been ticked and
\* projected without a fault
C27_Witness ==
    /\ pending = {}
    /\ phase = "update"
    /\ fault = "none"
    /\ Len(bodies) = 1
    /\ bodies[1].engine # <<>>
    /\ ThrustMagnitude(bodies[1].engine[1]) = 0
    /\ Len(steps) = Needed

\* C28: the pool starts empty.  Once the create requests of the first tick
\* are applied the pool has exactly 50 * B markers, all at the default
\* position.  In the second and every later tick on the same number of
\* bodies the reconciler issues no request, the pool keeps its 50 * B
\* markers and marker i holds the i-th position of that tick's projection,
\* before and after the commands are applied.
C28_PoolSettlesAfterFirstTick ==
    /\ (frame = 1 /\ phase = "applied") =>
           /\ Len(dots) = Needed
           /\ \A i \in 1..Len(dots) : dots[i].tran = DefaultTransform
    /\ (frame >= 2 /\ Projected /\ fault = "none") =>
           /\ commands = <<>>
           /\ Len(dots) = Needed
           /\ Len(steps) = Needed
           /\ \A i \in 1..Len(dots) : dots[i].tran = steps[i]

\* the second tick is over for two bodies or more: the markers hold its
\* projection, which is no longer the default position
C28_Witness ==
    /\ frame = 2
    /\ phase = "applied"
    /\ fault = "none"
    /\ Len(bodies) >= 2
    /\ Len(dots) = Needed
    /\ dots[Len(dots)].tran = steps[Len(steps)]
    /\ dots[Len(dots)].tran # DefaultTransform

\* the indexes of the gravity pass over the bodies ents: every split point
\* i + 1 is at most n, and every reaction of the tail after body i goes to
\* an index from i + 1 to n - 1
GravityIndexesInBounds(ents) ==
    \A i \in 0..(Len(ents) - 1) :
        /\ i + 1 <= Len(ents)
        /\ \A j \in 0..(Len(SubSeq(ents, i + 2, Len(ents))) - 1) :
               /\ i + 1 <= ReactionIndex(i, j)
               /\ ReactionIndex(i, j) <= Len(ents) - 1

\* C29: for every body count n >= 0 the index computations of the gravity
\* pass stay in bounds: split_at(i + 1) has i + 1 <= n and the reaction index
\* i + j + 1 lies in i + 1 .. n - 1, so no push of the pass is lost or fails
\* and every body of a tick ends with its n - 1 gravity entries; with n = 0
\* the tick and the projection do nothing.
C29_GravityIndexesInBounds ==
    [][(KinimaticsStep \/ ProjectionStep) =>
          /\ GravityIndexesInBounds(bodies)
          /\ KinimaticsStep =>
                 /\ fault' # "index out of bounds"
                 /\ Len(all_forces') = Len(bodies)
                 /\ \A k \in 1..Len(bodies) :
                        Len(all_forces'[k]) >=
                            IF fault' = "none" THEN Len(bodies) - 1 ELSE 0
          /\ Len(bodies) = 0 =>
                 /\ bodies' = bodies
                 /\ fault' # "0 forces"
                 /\ KinimaticsStep => (all_forces' = <<>> /\ fault' = "none")
                 /\ ProjectionStep => steps' = <<>>]_vars

\* the first tick of as many bodies as the bound allows has run before the
\* control step, each body with its entries
C29_Witness ==
    /\ frame = 1
    /\ "kinimatics" \notin pending
    /\ "user_control" \in pending
    /\ fault = "none"
    /\ Len(bodies) = MaxBodies
    /\ \A k \in 1..Len(bodies) : Len(all_forces[k]) >= MaxBodies - 1

\* the key is among the keys pressed
Pressed(pressed, key) == \E n \in 1..Len(pressed) : pressed[n] = key

\* the keys whose control step on body b leaves the body after
KeysTaking(b, after) ==
    {pressed \in KeyInputs : Control(b, pressed, dt) = after}

\* C30: after user_control_system has run in a tick in which W is not
\* pressed, the throttle of every controlled ship is Fixed(false), whichever
\* other keys are held and whatever the throttle was before; the throttle
\* is Fixed(true) after the step only if W was pressed in that tick.
C30_EngineOffUnlessW ==
    [][UserControlStep =>
          \A k \in 1..Len(bodies) :
              bodies[k].controlled =>
                  /\ \A pressed \in KeysTaking(bodies[k], bodies'[k]) :
                         ~Pressed(pressed, "W") =>
                             bodies'[k].engine[1].throttle = Fixed(FALSE)
                  /\ bodies'[k].engine[1].throttle = Fixed(TRUE) =>
                         \A pressed \in KeysTaking(bodies[k], bodies'[k]) :
                             Pressed(pressed, "W")]_vars

====
